---- MODULE Spec2Model ----
(***************************************************************************)
(* Streetlight dashboard (streamlit_dashboard.py): one browser session of  *)
(* the Streamlit script, the st.cache_data entry of get_streetlight_data,  *)
(* and the Firebase realtime database node 'streetlights' it reads and     *)
(* writes.  One step of the session is one script run (or one pass of the  *)
(* `while True` loop of main_dashboard) up to the point where it blocks in *)
(* time.sleep or stops in st.stop.                                         *)
(***************************************************************************)
EXTENDS Naturals, Sequences, FiniteSets, TLC

VARIABLES
    store,           \* the database node 'streetlights': key -> entry (field -> value)
    reachable,       \* whether a call to the database succeeds (else it raises)
    session_state,   \* st.session_state: username, password, password_correct
    firebase,        \* result cached by @st.cache_resource for init_firebase
    cache,           \* the @st.cache_data(ttl=5) entry of get_streetlight_data
    pc,              \* where the script run blocks
    page,            \* value of the "Select Page" radio
    selected_light,  \* value of the "Select Streetlight" selectbox
    button,          \* the button whose click triggered the current script run
    df,              \* the DataFrame of the current refresh cycle
    placeholder,     \* the elements shown in the st.empty() placeholder
    divisors,        \* the denominators the current cycle divided by
    lastFetch,       \* outcome of the body of get_streetlight_data behind df
    lastCmd          \* the command the current script run issued, and its result

vars == <<store, reachable, session_state, firebase, cache, pc, page,
          selected_light, button, df, placeholder, divisors, lastFetch, lastCmd>>

(***************************************************************************)
(* Bounds of the model.                                                    *)
(***************************************************************************)
\* The keys that can occur under 'streetlights', in the store's key order.
KeyOrder == <<"L1", "L2">>
LightIds == {KeyOrder[i] : i \in DOMAIN KeyOrder}
\* Largest epoch value a device reports in the 'timestamp' field.
MaxTimestamp == 1

(***************************************************************************)
(* Program constants.                                                      *)
(***************************************************************************)
ttl == 5
CommandPause == 1
ValidUsername == "Om"
ValidPassword == "Om123"
Usernames == {"Om", "admin"}
Passwords == {"Om123", "admin123"}
Pages == {"Overview", "Control Panel", "Analytics", "Settings"}
DefaultPage == "Overview"
NoLight == "none"
WarningNoData == "warning: No streetlight data available"
ErrorFetching == "error: Error fetching data"
ErrorSettingMode == "error: Error setting mode"
ErrorSettingState == "error: Error setting state"
SuccessMessage == "success"

(***************************************************************************)
(* The database.  An entry is a function from the fields it holds to their *)
(* values; a key with no field does not exist in a realtime database.      *)
(***************************************************************************)
NoEntry == [f \in {} |-> TRUE]
Keys(st) == {k \in LightIds : DOMAIN st[k] # {}}
KeySeq(st) == SelectSeq(KeyOrder, LAMBDA k : k \in Keys(st))

\* ref.update(fields) on 'streetlights/<id>': the given fields are set in
\* one write, the others kept; the path is created when it does not exist.
update(st, light_id, fields) ==
    [st EXCEPT ![light_id] =
        [f \in (DOMAIN @) \cup (DOMAIN fields) |->
            IF f \in DOMAIN fields THEN fields[f] ELSE @[f]]]

\* dict.get(key, default)
get(light_data, key, default) ==
    IF key \in DOMAIN light_data THEN light_data[key] ELSE default

(***************************************************************************)
(* get_streetlight_data                                                    *)
(***************************************************************************)
light_info_bad_default(light_id, light_data) ==
    [ID |-> light_id,
     Status |-> get(light_data, "status", "off"),
     Mode |-> get(light_data, "mode", "automatic"),
     IsDark |-> get(light_data, "isDark", FALSE),
     MotionDetected |-> get(light_data, "motionDetected", FALSE),
     Online |-> get(light_data, "online", TRUE),
     LastUpdate |-> get(light_data, "lastUpdate", ""),
     Timestamp |-> get(light_data, "timestamp", 0)]

light_info(light_id, light_data) ==
    [ID |-> light_id,
     Status |-> get(light_data, "status", "off"),
     Mode |-> get(light_data, "mode", "automatic"),
     IsDark |-> get(light_data, "isDark", FALSE),
     MotionDetected |-> get(light_data, "motionDetected", FALSE),
     Online |-> get(light_data, "online", FALSE),
     LastUpdate |-> get(light_data, "lastUpdate", ""),
     Timestamp |-> get(light_data, "timestamp", 0)]

EmptyDataFrame == <<>>

\* The body of get_streetlight_data: the rows, whether st.error was called
\* (the except branch), and which branch returned.
fetch_body(st, up) ==
    IF ~up
    THEN [df |-> EmptyDataFrame, err |-> TRUE, outcome |-> "failed"]
    ELSE IF Keys(st) # {}
         THEN [df |-> [i \in 1..Len(KeySeq(st)) |->
                          light_info(KeySeq(st)[i], st[KeySeq(st)[i]])],
               err |-> FALSE, outcome |-> "ok"]
         ELSE [df |-> EmptyDataFrame, err |-> FALSE, outcome |-> "empty"]

EmptyCache == [df |-> EmptyDataFrame, err |-> FALSE, outcome |-> "none", age |-> ttl]

cache_never_expires(c) == c.outcome # "none"

\* An entry of st.cache_data(ttl=5) is served while it is younger than ttl.
cache_valid(c) == c.age < ttl

\* The cached function: a valid entry is returned (its st.error replayed)
\* without a call to the database; otherwise the body runs and its value,
\* whatever branch returned it, becomes the entry.
get_streetlight_data(c, st, up) ==
    IF cache_valid(c)
    THEN [df |-> c.df, err |-> c.err, outcome |-> c.outcome, cache |-> c]
    ELSE LET r == fetch_body(st, up)
         IN  [df |-> r.df, err |-> r.err, outcome |-> r.outcome,
              cache |-> [df |-> r.df, err |-> r.err, outcome |-> r.outcome, age |-> 0]]

\* The entry after `secs` more seconds; an expired entry is dropped.
aged(c, secs) ==
    LET older == [c EXCEPT !.age = IF c.age + secs >= ttl THEN ttl ELSE c.age + secs]
    IN  IF cache_valid(older) THEN older ELSE EmptyCache

(***************************************************************************)
(* Command dispatch                                                        *)
(***************************************************************************)
set_light_mode(st, up, light_id, mode) ==
    IF up
    THEN [ok |-> TRUE, store |-> update(st, light_id, [mode |-> mode])]
    ELSE [ok |-> FALSE, store |-> st]

set_manual_state_one_field(st, up, light_id, state) ==
    IF up
    THEN [ok |-> TRUE, store |-> update(st, light_id, [manualState |-> state])]
    ELSE [ok |-> FALSE, store |-> st]

set_manual_state(st, up, light_id, state) ==
    IF up
    THEN [ok |-> TRUE,
          store |-> update(st, light_id,
                           [manualState |-> state,
                            status |-> IF state THEN "on" ELSE "off"])]
    ELSE [ok |-> FALSE, store |-> st]

(***************************************************************************)
(* Authentication                                                          *)
(***************************************************************************)
password_entered(ss) ==
    IF ss.username = ValidUsername /\ ss.password = ValidPassword
    THEN [ss EXCEPT !.password_correct = "True", !.password = "<deleted>"]
    ELSE [ss EXCEPT !.password_correct = "False"]

check_password_open(ss) == ss.password_correct # "absent"

check_password(ss) ==
    IF ss.password_correct = "absent" THEN FALSE
    ELSE IF ss.password_correct # "True" THEN FALSE
    ELSE TRUE

(***************************************************************************)
(* Pages                                                                   *)
(***************************************************************************)
df_empty_unguarded(d) == FALSE

\* df.empty
df_empty(d) == Len(d) = 0

IdsOf(d) == {d[i].ID : i \in DOMAIN d}
\* df[df['ID'] == light_id].iloc[0]
Row(d, light_id) == d[CHOOSE i \in DOMAIN d : d[i].ID = light_id]

\* show_overview and show_analytics divide by len(df).
show_overview(d) == {Len(d)}
show_analytics(d) == {Len(d)}

\* st.selectbox("Select Streetlight", light_ids): the kept choice while it
\* is still an option, else the first option.
selectbox(d, sel) ==
    IF sel \in IdsOf(d) THEN sel ELSE IF Len(d) = 0 THEN NoLight ELSE d[1].ID

manual_control_always(light_data) == TRUE

\* `if light_data['Mode'] == 'manual':` around the Turn ON / Turn OFF buttons
manual_control_shown(light_data) == light_data.Mode = "manual"

\* What a script run records of the command it issued: the call (kind, id,
\* mode or state), whether id was a key of the store when it was issued,
\* the call's return value, whether the environment acted since, and
\* whether the rerun that follows the command has fetched.
NoCmd == [kind |-> "none", id |-> NoLight, mode |-> "", state |-> FALSE,
          existed |-> FALSE, ok |-> FALSE, disturbed |-> FALSE, phase |-> "none"]

\* The command show_control_panel issues in a run triggered by button btn.
control_command(d, sel, btn) ==
    LET light == selectbox(d, sel)
        light_data == Row(d, light)
    IN  IF light = NoLight
        THEN NoCmd
        ELSE IF btn = "auto"
        THEN [NoCmd EXCEPT !.kind = "mode", !.id = light, !.mode = "automatic"]
        ELSE IF btn = "manual"
        THEN [NoCmd EXCEPT !.kind = "mode", !.id = light, !.mode = "manual"]
        ELSE IF btn \in {"on", "off"} /\ manual_control_shown(light_data)
        THEN [NoCmd EXCEPT !.kind = "state", !.id = light, !.state = (btn = "on")]
        ELSE NoCmd

dispatch(cmd, st, up) ==
    IF cmd.kind = "mode" THEN set_light_mode(st, up, cmd.id, cmd.mode)
    ELSE IF cmd.kind = "state" THEN set_manual_state(st, up, cmd.id, cmd.state)
    ELSE [ok |-> FALSE, store |-> st]

(***************************************************************************)
(* One pass of the refresh loop of main_dashboard, from the fetch to the   *)
(* next time.sleep: c is the cache entry at the time of the call, p, sel   *)
(* and btn the widget values of the run, refreshOf the command this run    *)
(* is the rerun of (NoCmd when it is none).                                *)
(***************************************************************************)
refreshed(refreshOf) ==
    IF refreshOf.kind = "none" THEN NoCmd ELSE [refreshOf EXCEPT !.phase = "refreshed"]

main_dashboard(c, p, sel, btn, refreshOf) ==
    LET r == get_streetlight_data(c, store, reachable)
    IN  /\ cache' = r.cache
        /\ df' = r.df
        /\ lastFetch' = r.outcome
        /\ page' = p
        /\ IF df_empty(r.df)
           THEN /\ pc' = "nodata"
                /\ placeholder' = (IF r.err THEN {ErrorFetching} ELSE {}) \cup {WarningNoData}
                /\ selected_light' = sel
                /\ button' = btn
                /\ divisors' = {}
                /\ lastCmd' = refreshed(refreshOf)
                /\ store' = store
           ELSE IF p = "Control Panel"
           THEN LET cmd == control_command(r.df, sel, btn)
                    w == dispatch(cmd, store, reachable)
                IN  /\ selected_light' = selectbox(r.df, sel)
                    /\ button' = "none"
                    /\ divisors' = {}
                    /\ store' = w.store
                    /\ IF cmd.kind = "none"
                       THEN /\ pc' = "page"
                            /\ placeholder' = {p}
                            /\ lastCmd' = refreshed(refreshOf)
                       ELSE /\ pc' = IF w.ok THEN "cmd_sleep" ELSE "page"
                            /\ placeholder' =
                                 {p} \cup (IF w.ok THEN {SuccessMessage}
                                           ELSE IF cmd.kind = "mode" THEN {ErrorSettingMode}
                                           ELSE {ErrorSettingState})
                            /\ lastCmd' = [cmd EXCEPT !.existed = cmd.id \in Keys(store),
                                                     !.ok = w.ok, !.phase = "issued"]
           ELSE /\ pc' = "page"
                /\ placeholder' = {p}
                /\ selected_light' = NoLight
                /\ button' = "none"
                /\ divisors' = (IF p = "Overview" THEN show_overview(r.df)
                                ELSE IF p = "Analytics" THEN show_analytics(r.df)
                                ELSE {})
                /\ lastCmd' = refreshed(refreshOf)
                /\ store' = store

\* The script run ends in st.stop() before main_dashboard: on the login
\* page, or on the Firebase initialization error.
stopped(at) ==
    /\ pc' = at
    /\ page' = DefaultPage
    /\ selected_light' = NoLight
    /\ button' = "none"
    /\ df' = EmptyDataFrame
    /\ placeholder' = {}
    /\ divisors' = {}
    /\ lastFetch' = "none"
    /\ lastCmd' = NoCmd
    /\ UNCHANGED <<store, cache>>

(***************************************************************************)
(* Initial state: a new session on the login page, nothing cached.         *)
(***************************************************************************)
NewDevice == [status |-> "off", mode |-> "automatic"]

InitSession ==
    /\ session_state = [username |-> "", password |-> "", password_correct |-> "absent"]
    /\ firebase = "uninit"
    /\ cache = EmptyCache
    /\ pc = "login"
    /\ page = DefaultPage
    /\ selected_light = NoLight
    /\ button = "none"
    /\ df = EmptyDataFrame
    /\ placeholder = {}
    /\ divisors = {}
    /\ lastFetch = "none"
    /\ lastCmd = NoCmd

Init ==
    /\ store \in [LightIds -> {NoEntry, NewDevice}]
    /\ reachable \in BOOLEAN
    /\ InitSession

(***************************************************************************)
(* Session actions                                                         *)
(***************************************************************************)
\* init_firebase under @st.cache_resource: the first call decides, later
\* calls return the cached result.
init_firebase(fb) == IF fb = "uninit" THEN {"ok", "failed"} ELSE {fb}

\* The script from the top (__main__): the gate, the initialization, then
\* the dashboard with the widget values p, sel and btn.
script_run(ss, p, sel, btn, c, refreshOf) ==
    /\ session_state' = ss
    /\ UNCHANGED reachable
    /\ IF ~check_password(ss)
       THEN /\ stopped("login")
            /\ UNCHANGED firebase
       ELSE \E fb \in init_firebase(firebase) :
              /\ firebase' = fb
              /\ IF fb # "ok"
                 THEN stopped("init_failed")
                 ELSE main_dashboard(c, p, sel, btn, refreshOf)

\* The Login button: password_entered runs as its on_click callback, then
\* the script reruns.
Login(u, p) ==
    /\ pc = "login"
    /\ script_run(password_entered([session_state EXCEPT !.username = u, !.password = p]),
                  DefaultPage, NoLight, "none", cache, NoCmd)

\* The Logout button of the sidebar: the flag is cleared and st.rerun()
\* restarts the script before the refresh loop is entered.
Logout ==
    /\ pc \in {"page", "nodata"}
    /\ script_run([session_state EXCEPT !.password_correct = "False"],
                  page, selected_light, "none", cache, NoCmd)

\* The page radio.
SelectPage(p) ==
    /\ pc \in {"page", "nodata"}
    /\ p # page
    /\ script_run(session_state, p, NoLight, "none", cache, NoCmd)

\* The refresh-interval slider: a rerun with the same widget values.
SliderChanged ==
    /\ pc \in {"page", "nodata"}
    /\ script_run(session_state, page, selected_light, "none", cache, NoCmd)

\* The streetlight selectbox of the control panel.
SelectLight(light_id) ==
    /\ pc = "page"
    /\ page = "Control Panel"
    /\ light_id \in IdsOf(df)
    /\ light_id # selected_light
    /\ script_run(session_state, page, light_id, "none", cache, NoCmd)

\* A button of the control panel that is on the screen.
Click(btn) ==
    /\ pc = "page"
    /\ page = "Control Panel"
    /\ selected_light \in IdsOf(df)
    /\ btn \in {"on", "off"} => manual_control_shown(Row(df, selected_light))
    /\ script_run(session_state, page, selected_light, btn, cache, NoCmd)

\* One second passes while the script sleeps or is stopped.
Tick ==
    /\ pc # "cmd_sleep"
    /\ cache_valid(cache)
    /\ cache' = aged(cache, 1)
    /\ lastCmd' = NoCmd
    /\ UNCHANGED <<store, reachable, session_state, firebase, pc, page, selected_light,
                   button, df, placeholder, divisors, lastFetch>>

\* time.sleep(refresh_rate) returns.  refresh_rate >= 5 = ttl (the slider's
\* range), so the entry the cycle used has expired by then.  After a
\* rendered page st.rerun() restarts the script; after the warning
\* `continue` starts the next pass of the same run, its button still set.
Wake ==
    /\ pc \in {"page", "nodata"}
    /\ ~cache_valid(cache)
    /\ IF pc = "page"
       THEN script_run(session_state, page, selected_light, "none", cache, NoCmd)
       ELSE /\ main_dashboard(cache, page, selected_light, button, NoCmd)
            /\ UNCHANGED <<reachable, session_state, firebase>>

\* After a successful command: time.sleep(1), then st.rerun().
CommandRerun ==
    /\ pc = "cmd_sleep"
    /\ script_run(session_state, page, selected_light, "none",
                  aged(cache, CommandPause), lastCmd)

(***************************************************************************)
(* The environment: connectivity, devices and other writers.               *)
(***************************************************************************)
\* The record of the command is kept for the step that follows it and, during
\* the pause after a successful command, marked once the environment acts
\* (only the kind of the command is remembered from then on).
disturb == lastCmd' = IF pc = "cmd_sleep"
                      THEN [NoCmd EXCEPT !.kind = lastCmd.kind, !.phase = "issued",
                                         !.disturbed = TRUE]
                      ELSE NoCmd

EnvFrame == UNCHANGED <<session_state, firebase, cache, pc, page, selected_light,
                        button, df, placeholder, divisors, lastFetch>>

Disconnect ==
    /\ reachable
    /\ reachable' = FALSE
    /\ store' = store
    /\ disturb
    /\ EnvFrame

Reconnect ==
    /\ ~reachable
    /\ reachable' = TRUE
    /\ store' = store
    /\ disturb
    /\ EnvFrame

\* A device registers under a key that does not exist.
ExternalCreate(light_id) ==
    /\ light_id \notin Keys(store)
    /\ store' = [store EXCEPT ![light_id] = NewDevice]
    /\ UNCHANGED reachable
    /\ disturb
    /\ EnvFrame

\* A device is removed from the database.
ExternalDelete(light_id) ==
    /\ light_id \in Keys(store)
    /\ store' = [store EXCEPT ![light_id] = NoEntry]
    /\ UNCHANGED reachable
    /\ disturb
    /\ EnvFrame

\* Another writer (a device, another session) sets the mode of a record.
ExternalWrite(light_id, mode) ==
    /\ light_id \in Keys(store)
    /\ get(store[light_id], "mode", "") # mode
    /\ store' = update(store, light_id, [mode |-> mode])
    /\ UNCHANGED reachable
    /\ disturb
    /\ EnvFrame

EnvNext ==
    \/ Disconnect
    \/ Reconnect
    \/ \E light_id \in LightIds : ExternalCreate(light_id)
    \/ \E light_id \in LightIds : ExternalDelete(light_id)
    \/ \E light_id \in LightIds, mode \in {"automatic", "manual"} : ExternalWrite(light_id, mode)

SessionNext ==
    \/ \E u \in Usernames, p \in Passwords : Login(u, p)
    \/ Logout
    \/ \E p \in Pages : SelectPage(p)
    \/ SliderChanged
    \/ \E light_id \in LightIds : SelectLight(light_id)
    \/ \E btn \in {"auto", "manual", "on", "off"} : Click(btn)
    \/ Tick
    \/ Wake
    \/ CommandRerun

Next == SessionNext \/ EnvNext

Spec == Init /\ [][Next]_vars

(***************************************************************************)
(* The refresh loop under its scheduling: time passes and time.sleep       *)
(* returns.  One device (the first key) registers, is written and is       *)
(* removed; the session does everything but choose among several lights.   *)
(***************************************************************************)
LiveLights == {KeyOrder[1]}

LiveInit ==
    /\ Init
    /\ \A k \in LightIds \ LiveLights : store[k] = NoEntry

LiveNext ==
    \/ \E u \in Usernames, p \in Passwords : Login(u, p)
    \/ Logout
    \/ \E p \in Pages : SelectPage(p)
    \/ SliderChanged
    \/ \E btn \in {"auto", "manual", "on", "off"} : Click(btn)
    \/ Tick
    \/ Wake
    \/ CommandRerun
    \/ Disconnect
    \/ Reconnect
    \/ \E light_id \in LiveLights : ExternalCreate(light_id)
    \/ \E light_id \in LiveLights : ExternalDelete(light_id)
    \/ \E light_id \in LiveLights, mode \in {"automatic", "manual"} : ExternalWrite(light_id, mode)

LiveSpec ==
    /\ LiveInit
    /\ [][LiveNext]_vars
    /\ WF_vars(Tick)
    /\ WF_vars(Wake)
    /\ WF_vars(CommandRerun)

(***************************************************************************)
(* get_streetlight_data over store entries that hold any subset of the     *)
(* optional fields: the session logs in and refreshes, nothing writes.     *)
(***************************************************************************)
FieldNames == {"status", "mode", "isDark", "motionDetected", "online", "timestamp"}

FullEntries == [status : {"on", "off"}, mode : {"automatic", "manual"},
                isDark : BOOLEAN, motionDetected : BOOLEAN, online : BOOLEAN,
                timestamp : 0..MaxTimestamp]

Entries == {[f \in S |-> e[f]] : e \in FullEntries, S \in SUBSET FieldNames}

OtherEntries ==
    {NoEntry, [mode |-> "manual"],
     [status |-> "on", mode |-> "manual", isDark |-> TRUE, motionDetected |-> TRUE,
      online |-> TRUE, timestamp |-> MaxTimestamp]}

FetchInit ==
    /\ store \in {st \in [LightIds -> Entries] : st[KeyOrder[2]] \in OtherEntries}
    /\ reachable = TRUE
    /\ InitSession

FetchNext ==
    \/ \E u \in Usernames, p \in Passwords : Login(u, p)
    \/ \E p \in Pages : SelectPage(p)
    \/ Tick
    \/ Wake

FetchSpec == FetchInit /\ [][FetchNext]_vars

(***************************************************************************)
(* Claims                                                                  *)
(***************************************************************************)
ModeIn(d, light_id) == IF light_id \in IdsOf(d) THEN Row(d, light_id).Mode ELSE "absent"

\* C1: after a successful set_light_mode(id, m) on an existing id that no
\* other writer disturbs, the snapshot of the rerun that follows the command
\* holds mode = m for id.
C1_ModeRoundTrip ==
    (/\ lastCmd.kind = "mode"
     /\ lastCmd.phase = "refreshed"
     /\ lastCmd.existed
     /\ lastCmd.ok
     /\ ~lastCmd.disturbed)
    => ModeIn(df, lastCmd.id) = lastCmd.mode

\* C2: set_manual_state(id, b) is both-or-neither: the step that issues it
\* either returns success with manualState = b and status = on/off written
\* together, or returns failure with the store untouched.
C2_BothOrNeither ==
    [][(/\ lastCmd'.kind = "state"
        /\ lastCmd'.phase = "issued"
        /\ ~lastCmd'.disturbed)
       => LET id == lastCmd'.id
              b == lastCmd'.state
          IN  \/ /\ lastCmd'.ok
                 /\ "manualState" \in DOMAIN store'[id]
                 /\ "status" \in DOMAIN store'[id]
                 /\ store'[id].manualState = b
                 /\ store'[id].status = (IF b THEN "on" ELSE "off")
              \/ /\ ~lastCmd'.ok
                 /\ store' = store]_vars

C2_Witness ==
    /\ pc = "cmd_sleep"
    /\ lastCmd.kind = "state"
    /\ lastCmd.state
    /\ lastCmd.ok
    /\ store[lastCmd.id].status = "on"

\* C3: a command whose id is not a key of the store returns failure, leaves
\* the store unchanged and creates no record; no command changes the set of
\* keys.
C3_UnknownIdRejected ==
    [][(/\ lastCmd'.kind # "none"
        /\ lastCmd'.phase = "issued"
        /\ ~lastCmd'.disturbed)
       => /\ Keys(store') = Keys(store)
          /\ ~lastCmd'.existed => (~lastCmd'.ok /\ store' = store)]_vars

\* C4: a failed fetch is told apart from an empty collection: its result is
\* not the empty result, and the message shown for an empty collection is
\* not shown for it.
C4_EmptyVersusFailed ==
    (pc = "nodata" /\ lastFetch = "failed")
    => /\ df # fetch_body([k \in LightIds |-> NoEntry], TRUE).df
       /\ WarningNoData \notin placeholder

\* C5: a cycle whose fetch fails leaves what the placeholder showed after
\* the last successful fetch as it was.
C5_FailedFetchKeepsDisplay ==
    [][(pc = "page" /\ lastFetch = "ok" /\ page' = page /\ lastFetch' = "failed")
       => (placeholder' = placeholder /\ df' = df)]_vars

\* C6: show_overview and show_analytics never divide by a snapshot size of
\* 0, and a cycle with an empty snapshot divides by nothing.
C6_NoDivisionByZero ==
    /\ 0 \notin divisors
    /\ Len(df) = 0 => divisors = {}

C6_Witness ==
    /\ pc = "page"
    /\ page = "Analytics"
    /\ divisors = {Len(df)}
    /\ lastFetch = "ok"
    /\ \E light_id \in LightIds : light_id \notin Keys(store)

\* C7: a fetch or a command happens only in a script run in which
\* password_correct is true, and password_correct becomes true only by a
\* Login with the hardcoded pair.
Gated ==
    (lastFetch # "none" \/ lastCmd.kind # "none" \/ pc \in {"page", "nodata", "cmd_sleep"})
    => session_state.password_correct = "True"

Dashboard == pc \in {"page", "nodata", "cmd_sleep"}
Recovered == reachable /\ Keys(store) # {} /\ Dashboard
FetchesAgain == (pc = "nodata" /\ cache.age > 0) ~> (cache.age = 0 \/ ~Dashboard)
RecordsRendered == pc = "page" /\ Len(df) > 0 /\ page # "Settings"
SnapshotServed == pc = "page" /\ Len(df) > 0 /\ lastFetch = "ok"

C8_RecordsRenderedAgain ==
    /\ FetchesAgain
    /\ (<>(pc = "nodata") /\ <>[]Recovered) => []<>RecordsRendered

\* C8 (amended): ... and once the store stays reachable and non-empty the
\* loop leaves the warning and runs the selected page with a snapshot of the
\* store's records; the page renders them unless it is Settings, which shows
\* no records.
C8_LoopRecovers ==
    /\ FetchesAgain
    /\ (<>(pc = "nodata") /\ <>[]Recovered) => []<>SnapshotServed

C8_Witness ==
    /\ pc = "nodata"
    /\ lastFetch = "failed"
    /\ cache.age > 0
    /\ reachable
    /\ Keys(store) # {}

\* C9: every key of a non-empty collection yields exactly one record, with
\* ID the key, each stored field as stored and each absent field at its
\* documented default.
DocumentedDefault ==
    [status |-> "off", mode |-> "automatic", isDark |-> FALSE, motionDetected |-> FALSE,
     online |-> FALSE, timestamp |-> 0]

Column ==
    [status |-> "Status", mode |-> "Mode", isDark |-> "IsDark",
     motionDetected |-> "MotionDetected", online |-> "Online", timestamp |-> "Timestamp"]

C9_DefaultFilling ==
    (lastFetch = "ok")
    => /\ Len(df) = Cardinality(Keys(store))
       /\ \A k \in Keys(store) :
            /\ Cardinality({i \in DOMAIN df : df[i].ID = k}) = 1
            /\ \A i \in DOMAIN df :
                 df[i].ID = k =>
                   \A f \in FieldNames :
                     df[i][Column[f]] =
                        (IF f \in DOMAIN store[k] THEN store[k][f] ELSE DocumentedDefault[f])

C9_Witness ==
    /\ lastFetch = "ok"
    /\ Len(df) = 2
    /\ DOMAIN store[KeyOrder[1]] = {"isDark"}
    /\ store[KeyOrder[1]].isDark
    /\ df[1].Online = FALSE
    /\ df[1].IsDark

\* C10: set_manual_state is invoked only for the selected light and only
\* when its record in the snapshot of that script run has mode manual; the
\* session writes manualState or status of a light in no other step.
ManualGuarded ==
    (lastCmd.kind = "state" /\ lastCmd.phase = "issued" /\ ~lastCmd.disturbed)
    => /\ lastCmd.id = selected_light
       /\ ModeIn(df, lastCmd.id) = "manual"

FieldChanged(old, new, f) ==
    \/ (f \in DOMAIN old) # (f \in DOMAIN new)
    \/ f \in DOMAIN old /\ f \in DOMAIN new /\ old[f] # new[f]

WritesState(light_id) ==
    \/ FieldChanged(store[light_id], store'[light_id], "manualState")
    \/ FieldChanged(store[light_id], store'[light_id], "status")

C10_ManualOnlyInManualMode ==
    /\ []ManualGuarded
    /\ [][\A light_id \in LightIds :
            (WritesState(light_id) /\ ~EnvNext)
            => /\ lastCmd'.kind = "state"
               /\ lastCmd'.phase = "issued"
               /\ lastCmd'.id = light_id
               /\ ModeIn(df', light_id) = "manual"]_vars

C10_Witness ==
    /\ lastCmd.kind = "state"
    /\ lastCmd.phase = "issued"
    /\ lastCmd.ok
    /\ ~lastCmd.disturbed
    /\ "mode" \in DOMAIN store[lastCmd.id]
    /\ store[lastCmd.id].mode = "automatic"

====
